---- MODULE Spec2Model ----
(***************************************************************************)
(* State-machine model of the shop management system (src/app.py): the     *)
(* SQLite store (shops, users, items, sales), the per-client Flask session, *)
(* and the request handlers.  Every handler that commits at most once is   *)
(* one action.  sell_item commits twice (update_item, then the INSERT INTO *)
(* sales, each on its own connection), so it is three steps: the reads and *)
(* checks, the first commit, the second commit.  init_db reads before it   *)
(* opens its write transaction, so a start of the application is steps too.*)
(***************************************************************************)
EXTENDS Integers, Sequences, FiniteSets

VARIABLES
    boots,      \* per start of the application: where its init_db() is (line 165)
    shops,      \* table shops: set of rows [id, name]
    shop_seq,   \* sqlite_sequence entry of shops: the largest id ever used up
    users,      \* table users: set of rows [id, username, password, role]
    user_seq,   \* sqlite_sequence entry of users: the largest id ever used up
    items,      \* table items: set of rows [id, shop_id, name, price, quantity]
    item_seq,   \* sqlite_sequence entry of items: the largest id ever given
    sales,      \* table sales: sequence of rows, id = position (AUTOINCREMENT, no delete)
    session,    \* per client: the Flask session [user_id, shop_id]
    req,        \* per client: the sell request in flight (its locals) or Idle
    resp        \* per client: the response to its last finished request

vars == <<boots, shops, shop_seq, users, user_seq, items, item_seq, sales, session,
          req, resp>>
store == <<shops, shop_seq, users, user_seq, items, item_seq, sales>>

----------------------------------------------------------------------------
(* Bounds of the model. *)

MaxItems == 1      \* rows ever inserted into items
MaxSales == 2      \* rows ever inserted into sales
MaxBoots == 2      \* starts of the application
MaxShopIds == 3    \* ids ever used up in shops (inserted or ignored rows)
MaxUserIds == 3    \* ids ever used up in users (inserted or ignored rows)

(* The callers: two browsers, each with its own session cookie. *)
Clients == {"c1", "c2"}

(* The starts of the application, and those whose init_db has returned.    *)
Starts == 1..MaxBoots
Started == {s \in Starts : boots[s] = "up"}
OneStart == [s \in Starts |-> IF s = 1 THEN "up" ELSE "off"]

----------------------------------------------------------------------------
(* Python's None and an optional value: None is <<>>, a value v is <<v>>. *)

None == <<>>
Some(v) == <<v>>
Get(o) == o[1]

(* int(text): the integer, or None where Python raises ValueError.  The    *)
(* form texts of the model are these literals and the non-numeric "abc".   *)
ParseInt(text) ==
    CASE text = "-1" -> Some(-1)
      [] text = "0"  -> Some(0)
      [] text = "1"  -> Some(1)
      [] text = "2"  -> Some(2)
      [] text = "3"  -> Some(3)
      [] text = "4"  -> Some(4)
      [] text = "6"  -> Some(6)
      [] text = "10" -> Some(10)
      [] OTHER       -> None

(* float(text): as int(text) on the texts of the model, which are whole    *)
(* numbers (exact as floats, and so are their products).                   *)
ParseFloat(text) == ParseInt(text)

(* str.strip() on the texts of the model. *)
Strip(text) ==
    CASE text = " Widget " -> "Widget"
      [] text = "  "       -> ""
      [] OTHER             -> text

----------------------------------------------------------------------------
(* The store. *)

RECURSIVE SeqOfSet(_)
(* The rows of a set ordered by id, descending (ORDER BY id DESC). *)
SeqOfSet(S) ==
    IF S = {} THEN <<>>
    ELSE LET top == CHOOSE r \in S : \A o \in S : o.id <= r.id
         IN  <<top>> \o SeqOfSet(S \ {top})

(* The Item dataclass built from a row: the four selected columns. *)
Item(row) ==
    [id |-> row.id, name |-> row.name, price |-> row.price, quantity |-> row.quantity]

(* init_db: existing_shop is a row when the table shops has one.  The       *)
(* SELECT is its own statement and holds no lock when it has returned.      *)
existing_shop(shs) == shs # {}

(* init_db: INSERT INTO shops of 'Default Shop' with the next AUTOINCREMENT *)
(* id.  shops.name is UNIQUE: the insert raises IntegrityError when a row   *)
(* has the name.                                                            *)
shop_name_taken(shs, name) == \E sh \in shs : sh.name = name

seed_shop(shs, seq) == shs \cup {[id |-> seq + 1, name |-> "Default Shop"]}

(* The SELECT of the admin that never finds one. *)
existing_admin_none(us) == FALSE

(* init_db: existing_admin is a row when some user has role admin. *)
existing_admin(us) == \E u \in us : u.role = "admin"

(* init_db: INSERT INTO users of the admin.  users.username is UNIQUE: the  *)
(* insert raises IntegrityError when a row has the username.                *)
username_taken(us, username) == \E u \in us : u.username = username

seed_admin(us, seq) ==
    us \cup {[id |-> seq + 1, username |-> "admin", password |-> "admin123",
              role |-> "admin"]}

(* INSERT OR IGNORE INTO shops (name): the row with the next AUTOINCREMENT  *)
(* id, or no row when the name is taken (name is UNIQUE).  Either way the   *)
(* statement uses up the id: sqlite_sequence advances.                      *)
insert_or_ignore_shop(shs, seq, name) ==
    IF \A sh \in shs : sh.name # name
    THEN shs \cup {[id |-> seq + 1, name |-> name]}
    ELSE shs

(* INSERT OR IGNORE INTO users (username, password, 'worker'): likewise     *)
(* (username is UNIQUE).                                                    *)
insert_or_ignore_worker(us, seq, username, password) ==
    IF \A u \in us : u.username # username
    THEN us \cup {[id |-> seq + 1, username |-> username, password |-> password,
                   role |-> "worker"]}
    ELSE us

(* fetch_items without its WHERE shop_id = ?. *)
fetch_items_all_shops(shop_id) ==
    IF shop_id = None THEN <<>> ELSE SeqOfSet({Item(r) : r \in items})

(* fetch_items(shop_id): [] without a shop, else the shop's rows, newest first. *)
fetch_items(shop_id) ==
    IF shop_id = None THEN <<>>
    ELSE SeqOfSet({Item(r) : r \in {x \in items : x.shop_id = Get(shop_id)}})

(* fetch_item without its shop filter. *)
fetch_item_unscoped(item_id, shop_id) ==
    LET rows == {r \in items : r.id = item_id}
    IN  IF rows = {} THEN None ELSE Some(Item(CHOOSE r \in rows : TRUE))

(* fetch_item(item_id, shop_id): the row with that id (and, when a shop is  *)
(* given, that shop), or None.                                              *)
fetch_item(item_id, shop_id) ==
    LET rows == IF shop_id = None
                THEN {r \in items : r.id = item_id}
                ELSE {r \in items : r.id = item_id /\ r.shop_id = Get(shop_id)}
    IN  IF rows = {} THEN None ELSE Some(Item(CHOOSE r \in rows : TRUE))

(* create_item: INSERT with the next AUTOINCREMENT id. *)
create_item(its, seq, shop_id, name, price, quantity) ==
    its \cup {[id |-> seq + 1, shop_id |-> shop_id, name |-> name,
               price |-> price, quantity |-> quantity]}

(* update_item: UPDATE items SET name, price, quantity WHERE id = item_id. *)
update_item(its, item_id, name, price, quantity) ==
    {IF r.id = item_id
     THEN [r EXCEPT !.name = name, !.price = price, !.quantity = quantity]
     ELSE r : r \in its}

(* delete_item: DELETE FROM items WHERE id = item_id. *)
delete_item(its, item_id) == {r \in its : r.id # item_id}

(* The insert as a replacement of the newest sales row. *)
insert_sale_replacing(sls, shop_id, item_id, user_id, quantity, total) ==
    IF Len(sls) = 0
    THEN <<[shop_id |-> shop_id, item_id |-> item_id, user_id |-> user_id,
            quantity |-> quantity, total |-> total]>>
    ELSE [sls EXCEPT ![Len(sls)] =
             [shop_id |-> shop_id, item_id |-> item_id, user_id |-> user_id,
              quantity |-> quantity, total |-> total]]

(* The INSERT INTO sales of sell_item. *)
insert_sale(sls, shop_id, item_id, user_id, quantity, total) ==
    Append(sls, [shop_id |-> shop_id, item_id |-> item_id, user_id |-> user_id,
                 quantity |-> quantity, total |-> total])

(* The SELECT of sales_report: the sales rows of the shop, each joined with *)
(* the items row of its item_id and the users row of its user_id (inner     *)
(* joins: a sales row without either is not selected).  The rows as a set:  *)
(* created_at has a resolution of one second, and the order of rows of the  *)
(* same second is not fixed by the query.                                   *)
sales_report(shop_id) ==
    {[id |-> k, name |-> r.name, quantity |-> sales[k].quantity,
      total |-> sales[k].total, username |-> u.username] :
        <<k, r, u>> \in {kru \in (1..Len(sales)) \X items \X users :
                            /\ sales[kru[1]].shop_id = shop_id
                            /\ kru[2].id = sales[kru[1]].item_id
                            /\ kru[3].id = sales[kru[1]].user_id}}

----------------------------------------------------------------------------
(* Sessions, requests and responses. *)

(* A session after session.clear(), and a fresh one. *)
EmptySession == [user_id |-> None, shop_id |-> None]

(* No sell request in flight. *)
Idle == [pc |-> "idle"]

(* Responses: redirect(url_for(to, ...)), render_template(page), the 500 of *)
(* an uncaught exception, and the value before a client's first response.  *)
(* items is the set of ids of the item rows handed to the template, sales   *)
(* the set of ids of the sales rows handed to it.                          *)
Redirect(to) ==
    [kind |-> "redirect", to |-> to, status |-> "", ok |-> "", items |-> {},
     sales |-> {}]
SellResult(status, ok) ==
    [kind |-> "redirect", to |-> "index", status |-> status, ok |-> ok, items |-> {},
     sales |-> {}]
Render(page, status, ids) ==
    [kind |-> "render", to |-> page, status |-> status, ok |-> "", items |-> ids,
     sales |-> {}]
RenderReport(rows) ==
    [kind |-> "render", to |-> "sales_report", status |-> "", ok |-> "", items |-> {},
     sales |-> {r.id : r \in rows}]
ServerError ==
    [kind |-> "error", to |-> "", status |-> "", ok |-> "", items |-> {}, sales |-> {}]
NoResp ==
    [kind |-> "none", to |-> "", status |-> "", ok |-> "", items |-> {}, sales |-> {}]

SaleRecorded == SellResult("Sale recorded successfully.", "true")
InvalidInput == SellResult("Please select a valid item and quantity.", "false")
ItemNotFound == SellResult("Selected item not found.", "false")
QuantityTooSmall == SellResult("Quantity must be at least 1.", "false")
NotEnoughStock == SellResult("Not enough stock to complete the sale.", "false")

(* get_current_user / require_login: the users row of session["user_id"],  *)
(* or None.                                                                *)
get_current_user(sess) ==
    IF sess.user_id = None THEN None
    ELSE LET rows == {u \in users : u.id = Get(sess.user_id)}
         IN  IF rows = {} THEN None
             ELSE LET u == CHOOSE row \in rows : TRUE
                  IN  Some([id |-> u.id, username |-> u.username, role |-> u.role])

(* require_admin answering True for every role. *)
require_admin_any_role(user) == user.role \in {"admin", "worker"}

(* require_admin(user). *)
require_admin(user) == user.role = "admin"

(* The ids of the rows of a list of items. *)
IdsOf(rows) == {rows[i].id : i \in 1..Len(rows)}

----------------------------------------------------------------------------
(* Form inputs. *)

Credentials ==
    { <<"admin", "admin123">>, <<"worker1", "pw1">>, <<"admin", "wrong">> }
WorkerForms ==
    { <<"worker1", "pw1">>, <<"worker2", "pw2">>, <<"admin", "pw1">>, <<"  ", "pw1">> }
ShopNames == { "Alpha", "Default Shop", "  " }
ShopIdTexts == { "", "1", "2", "abc" }
ItemForms ==
    { [name |-> " Widget ", price |-> "2", quantity |-> "10"],
      [name |-> "Gadget",   price |-> "3", quantity |-> "6"],
      [name |-> "Widget",   price |-> "2", quantity |-> "-1"],
      [name |-> "Widget",   price |-> "abc", quantity |-> "1"] }
ItemIds == 1..MaxItems
SellItemTexts == { "1", "2", "abc" }
SellQuantityTexts == { "-1", "0", "6", "abc" }

----------------------------------------------------------------------------
(* Handlers that commit at most once: one action each.  A client sends its  *)
(* next request when its previous one has been answered.                    *)

Ready(c) == Started # {} /\ req[c] = Idle

Answer(c, r) == resp' = [resp EXCEPT ![c] = r]

(* The module body: init_db() on every start of the application.  Starts   *)
(* may overlap (two processes on one database file).  sqlite3 opens the    *)
(* write transaction at the first INSERT, so the statements before it are  *)
(* committed one by one, and the statements from it to the commit of line  *)
(* 99 are one unit.                                                         *)

(* Lines 32-43: CREATE TABLE shops, and the SELECT of the first shop.       *)
(* Starts are numbered in the order in which they get here.                 *)
InitDbCheck(s) ==
    /\ boots[s] = "off"
    /\ \A t \in Starts : t < s => boots[t] # "off"
    /\ boots' = [boots EXCEPT ![s] = IF existing_shop(shops) THEN "admin" ELSE "seed"]
    /\ UNCHANGED <<shops, shop_seq, users, user_seq, items, item_seq, sales,
                   session, req, resp>>

(* Lines 44-99 when the SELECT found no shop: the INSERT INTO shops opens   *)
(* the transaction, the admin is looked up and seeded inside it, and line   *)
(* 99 commits.  An INSERT that meets a row with its unique value raises     *)
(* IntegrityError, the with block rolls back and the start fails.           *)
InitDbSeed(s) ==
    /\ boots[s] = "seed"
    /\ LET admin_found == existing_admin(users)
       IN  IF \/ shop_name_taken(shops, "Default Shop")
              \/ ~admin_found /\ username_taken(users, "admin")
           THEN /\ boots' = [boots EXCEPT ![s] = "failed"]
                /\ UNCHANGED <<shops, shop_seq, users, user_seq>>
           ELSE /\ boots' = [boots EXCEPT ![s] = "up"]
                /\ shops' = seed_shop(shops, shop_seq)
                /\ shop_seq' = shop_seq + 1
                /\ users' = IF admin_found THEN users ELSE seed_admin(users, user_seq)
                /\ user_seq' = IF admin_found THEN user_seq ELSE user_seq + 1
    /\ UNCHANGED <<items, item_seq, sales, session, req, resp>>

(* Lines 45-99 when the SELECT found a shop: no transaction is open, so the *)
(* SELECT of the admin (lines 91-93) is one step, and the INSERT of the     *)
(* admin with its commit (lines 95-99), when no admin was found, the next.  *)
InitDbAdmin(s) ==
    /\ boots[s] \in {"admin", "admin_seed"}
    /\ IF boots[s] = "admin"
       THEN /\ boots' = [boots EXCEPT ![s] = IF existing_admin(users) THEN "up"
                                               ELSE "admin_seed"]
            /\ UNCHANGED <<users, user_seq>>
       ELSE IF username_taken(users, "admin")
            THEN /\ boots' = [boots EXCEPT ![s] = "failed"]
                 /\ UNCHANGED <<users, user_seq>>
            ELSE /\ boots' = [boots EXCEPT ![s] = "up"]
                 /\ users' = seed_admin(users, user_seq)
                 /\ user_seq' = user_seq + 1
    /\ UNCHANGED <<shops, shop_seq, items, item_seq, sales, session, req, resp>>

InitDb ==
    \E s \in Starts : InitDbCheck(s) \/ InitDbSeed(s) \/ InitDbAdmin(s)

(* POST /login. *)
Login(c, username, password) ==
    /\ Ready(c)
    /\ LET found == {u \in users :
                        /\ u.username = Strip(username)
                        /\ u.password = Strip(password)}
       IN  IF found = {}
           THEN /\ Answer(c, Render("login", "Invalid credentials.", {}))
                /\ UNCHANGED session
           ELSE /\ session' = [session EXCEPT ![c].user_id =
                                  Some((CHOOSE u \in found : TRUE).id)]
                /\ Answer(c, Redirect("dashboard"))
    /\ UNCHANGED <<boots, shops, shop_seq, users, user_seq, items, item_seq, sales, req>>

(* POST /logout. *)
Logout(c) ==
    /\ Ready(c)
    /\ session' = [session EXCEPT ![c] = EmptySession]
    /\ Answer(c, Redirect("login"))
    /\ UNCHANGED <<boots, shops, shop_seq, users, user_seq, items, item_seq, sales, req>>

(* GET /. *)
Index(c) ==
    /\ Ready(c)
    /\ IF get_current_user(session[c]) = None
       THEN Answer(c, Redirect("login"))
       ELSE Answer(c, Render("index", "", IdsOf(fetch_items(session[c].shop_id))))
    /\ UNCHANGED <<boots, shops, shop_seq, users, user_seq, items, item_seq, sales, session, req>>

(* POST /shops: INSERT OR IGNORE of a non-empty name. *)
Shops(c, name) ==
    /\ Ready(c)
    /\ IF get_current_user(session[c]) = None
       THEN /\ Answer(c, Redirect("login"))
            /\ UNCHANGED <<shops, shop_seq>>
       ELSE /\ IF Strip(name) # ""
               THEN /\ shop_seq < MaxShopIds
                    /\ shops' = insert_or_ignore_shop(shops, shop_seq, Strip(name))
                    /\ shop_seq' = shop_seq + 1
               ELSE UNCHANGED <<shops, shop_seq>>
            /\ Answer(c, Render("shops", "", {}))
    /\ UNCHANGED <<boots, users, user_seq, items, item_seq, sales, session, req>>

(* POST /shops/select. *)
SelectShop(c, shop_id) ==
    /\ Ready(c)
    /\ IF get_current_user(session[c]) = None
       THEN /\ Answer(c, Redirect("login"))
            /\ UNCHANGED session
       ELSE IF shop_id # "" /\ ParseInt(shop_id) = None
       THEN /\ Answer(c, ServerError)
            /\ UNCHANGED session
       ELSE /\ session' = [session EXCEPT ![c].shop_id =
                              IF shop_id # "" THEN ParseInt(shop_id) ELSE None]
            /\ Answer(c, Redirect("index"))
    /\ UNCHANGED <<boots, shops, shop_seq, users, user_seq, items, item_seq, sales, req>>

(* POST /workers: INSERT OR IGNORE of a worker with a non-empty username    *)
(* and password.                                                            *)
Workers(c, username, password) ==
    /\ Ready(c)
    /\ LET user == get_current_user(session[c])
       IN  IF user = None
           THEN /\ Answer(c, Redirect("login"))
                /\ UNCHANGED <<users, user_seq>>
           ELSE IF ~require_admin(Get(user))
           THEN /\ Answer(c, Redirect("dashboard"))
                /\ UNCHANGED <<users, user_seq>>
           ELSE /\ IF Strip(username) # "" /\ Strip(password) # ""
                   THEN /\ user_seq < MaxUserIds
                        /\ users' = insert_or_ignore_worker(users, user_seq,
                                         Strip(username), Strip(password))
                        /\ user_seq' = user_seq + 1
                   ELSE UNCHANGED <<users, user_seq>>
                /\ Answer(c, Render("workers", "", {}))
    /\ UNCHANGED <<boots, shops, shop_seq, items, item_seq, sales, session, req>>

(* POST /item/new. *)
NewItem(c, form) ==
    /\ Ready(c)
    /\ IF get_current_user(session[c]) = None
       THEN /\ Answer(c, Redirect("login"))
            /\ UNCHANGED <<items, item_seq>>
       ELSE IF session[c].shop_id = None
       THEN /\ Answer(c, Redirect("shops"))
            /\ UNCHANGED <<items, item_seq>>
       ELSE IF ParseFloat(form.price) = None \/ ParseInt(form.quantity) = None
       THEN /\ Answer(c, ServerError)
            /\ UNCHANGED <<items, item_seq>>
       ELSE /\ item_seq < MaxItems
            /\ items' = create_item(items, item_seq, Get(session[c].shop_id),
                                    Strip(form.name), Get(ParseFloat(form.price)),
                                    Get(ParseInt(form.quantity)))
            /\ item_seq' = item_seq + 1
            /\ Answer(c, Redirect("index"))
    /\ UNCHANGED <<boots, shops, shop_seq, users, user_seq, sales, session, req>>

(* GET /item/<item_id>/edit. *)
EditItemGet(c, item_id) ==
    /\ Ready(c)
    /\ IF get_current_user(session[c]) = None
       THEN Answer(c, Redirect("login"))
       ELSE IF fetch_item(item_id, None) = None
       THEN Answer(c, Redirect("index"))
       ELSE Answer(c, Render("item_form", "", {Get(fetch_item(item_id, None)).id}))
    /\ UNCHANGED <<boots, shops, shop_seq, users, user_seq, items, item_seq, sales, session, req>>

(* POST /item/<item_id>/edit. *)
EditItem(c, item_id, form) ==
    /\ Ready(c)
    /\ IF get_current_user(session[c]) = None
       THEN /\ Answer(c, Redirect("login"))
            /\ UNCHANGED items
       ELSE IF fetch_item(item_id, None) = None
       THEN /\ Answer(c, Redirect("index"))
            /\ UNCHANGED items
       ELSE IF ParseFloat(form.price) = None \/ ParseInt(form.quantity) = None
       THEN /\ Answer(c, ServerError)
            /\ UNCHANGED items
       ELSE /\ items' = update_item(items, item_id, Strip(form.name),
                                    Get(ParseFloat(form.price)),
                                    Get(ParseInt(form.quantity)))
            /\ Answer(c, Redirect("index"))
    /\ UNCHANGED <<boots, shops, shop_seq, users, user_seq, item_seq, sales, session, req>>

(* POST /item/<item_id>/delete. *)
RemoveItem(c, item_id) ==
    /\ Ready(c)
    /\ IF get_current_user(session[c]) = None
       THEN /\ Answer(c, Redirect("login"))
            /\ UNCHANGED items
       ELSE /\ items' = delete_item(items, item_id)
            /\ Answer(c, Redirect("index"))
    /\ UNCHANGED <<boots, shops, shop_seq, users, user_seq, item_seq, sales, session, req>>

(* GET /sales-report. *)
SalesReport(c) ==
    /\ Ready(c)
    /\ IF get_current_user(session[c]) = None
       THEN Answer(c, Redirect("login"))
       ELSE IF session[c].shop_id = None
       THEN Answer(c, Redirect("shops"))
       ELSE Answer(c, RenderReport(sales_report(Get(session[c].shop_id))))
    /\ UNCHANGED <<boots, shops, shop_seq, users, user_seq, items, item_seq, sales, session, req>>

----------------------------------------------------------------------------
(* POST /sell. *)

(* sell_check without the stock check. *)
sell_check_no_stock(c, item_id, quantity) ==
    LET user == get_current_user(session[c])
        shop_id == session[c].shop_id
    IN  IF user = None THEN [go |-> FALSE, resp |-> Redirect("login")]
        ELSE IF shop_id = None THEN [go |-> FALSE, resp |-> Redirect("shops")]
        ELSE IF ParseInt(item_id) = None \/ ParseInt(quantity) = None
        THEN [go |-> FALSE, resp |-> InvalidInput]
        ELSE LET item == fetch_item(Get(ParseInt(item_id)), shop_id)
                 q == Get(ParseInt(quantity))
             IN  IF item = None THEN [go |-> FALSE, resp |-> ItemNotFound]
                 ELSE IF q <= 0 THEN [go |-> FALSE, resp |-> QuantityTooSmall]
                 ELSE [go |-> TRUE, resp |-> SaleRecorded,
                       shop_id |-> Get(shop_id), user_id |-> Get(user).id,
                       item |-> Get(item), quantity |-> q]

(* sell_check without the check that the quantity is positive. *)
sell_check_no_positive(c, item_id, quantity) ==
    LET user == get_current_user(session[c])
        shop_id == session[c].shop_id
    IN  IF user = None THEN [go |-> FALSE, resp |-> Redirect("login")]
        ELSE IF shop_id = None THEN [go |-> FALSE, resp |-> Redirect("shops")]
        ELSE IF ParseInt(item_id) = None \/ ParseInt(quantity) = None
        THEN [go |-> FALSE, resp |-> InvalidInput]
        ELSE LET item == fetch_item(Get(ParseInt(item_id)), shop_id)
                 q == Get(ParseInt(quantity))
             IN  IF item = None THEN [go |-> FALSE, resp |-> ItemNotFound]
                 ELSE IF q > Get(item).quantity
                 THEN [go |-> FALSE, resp |-> NotEnoughStock]
                 ELSE [go |-> TRUE, resp |-> SaleRecorded,
                       shop_id |-> Get(shop_id), user_id |-> Get(user).id,
                       item |-> Get(item), quantity |-> q]

(* sell_check with an item lookup that ignores the selected shop. *)
sell_check_any_shop(c, item_id, quantity) ==
    LET user == get_current_user(session[c])
        shop_id == session[c].shop_id
    IN  IF user = None THEN [go |-> FALSE, resp |-> Redirect("login")]
        ELSE IF shop_id = None THEN [go |-> FALSE, resp |-> Redirect("shops")]
        ELSE IF ParseInt(item_id) = None \/ ParseInt(quantity) = None
        THEN [go |-> FALSE, resp |-> InvalidInput]
        ELSE LET item == fetch_item(Get(ParseInt(item_id)), None)
                 q == Get(ParseInt(quantity))
             IN  IF item = None THEN [go |-> FALSE, resp |-> ItemNotFound]
                 ELSE IF q <= 0 THEN [go |-> FALSE, resp |-> QuantityTooSmall]
                 ELSE IF q > Get(item).quantity
                 THEN [go |-> FALSE, resp |-> NotEnoughStock]
                 ELSE [go |-> TRUE, resp |-> SaleRecorded,
                       shop_id |-> Get(shop_id), user_id |-> Get(user).id,
                       item |-> Get(item), quantity |-> q]

(* sell_item up to its first write: the login and shop checks, the parse of *)
(* the form, the scoped fetch_item and the quantity checks.  go is TRUE     *)
(* when the sale goes on to its writes, with the locals they use.           *)
sell_check(c, item_id, quantity) ==
    LET user == get_current_user(session[c])
        shop_id == session[c].shop_id
    IN  IF user = None THEN [go |-> FALSE, resp |-> Redirect("login")]
        ELSE IF shop_id = None THEN [go |-> FALSE, resp |-> Redirect("shops")]
        ELSE IF ParseInt(item_id) = None \/ ParseInt(quantity) = None
        THEN [go |-> FALSE, resp |-> InvalidInput]
        ELSE LET item == fetch_item(Get(ParseInt(item_id)), shop_id)
                 q == Get(ParseInt(quantity))
             IN  IF item = None THEN [go |-> FALSE, resp |-> ItemNotFound]
                 ELSE IF q <= 0 THEN [go |-> FALSE, resp |-> QuantityTooSmall]
                 ELSE IF q > Get(item).quantity
                 THEN [go |-> FALSE, resp |-> NotEnoughStock]
                 ELSE [go |-> TRUE, resp |-> SaleRecorded,
                       shop_id |-> Get(shop_id), user_id |-> Get(user).id,
                       item |-> Get(item), quantity |-> q]

(* The first write of a sale: update_item with the name, price and quantity *)
(* read by fetch_item.                                                      *)
sell_update(its, item, quantity) ==
    update_item(its, item.id, item.name, item.price, item.quantity - quantity)

(* The sales row with the unit price as its total. *)
sell_insert_unit_total(sls, shop_id, item, user_id, quantity) ==
    insert_sale(sls, shop_id, item.id, user_id, quantity, item.price)

(* The second write of a sale: the sales row. *)
sell_insert(sls, shop_id, item, user_id, quantity) ==
    insert_sale(sls, shop_id, item.id, user_id, quantity, item.price * quantity)

(* The sell requests between their checks and their last commit. *)
InFlight == {c \in Clients : req[c] # Idle}

(* A sell request, first step: the checks.  A rejected request is answered; *)
(* an accepted one keeps its locals.                                        *)
SellBegin(c, item_id, quantity) ==
    /\ Ready(c)
    /\ LET d == sell_check(c, item_id, quantity)
       IN  IF d.go
           THEN /\ Len(sales) + Cardinality(InFlight) < MaxSales
                /\ req' = [req EXCEPT ![c] =
                              [pc |-> "update", shop_id |-> d.shop_id,
                               user_id |-> d.user_id, item |-> d.item,
                               quantity |-> d.quantity]]
                /\ UNCHANGED resp
           ELSE /\ Answer(c, d.resp)
                /\ UNCHANGED req
    /\ UNCHANGED <<boots, shops, shop_seq, users, user_seq, items, item_seq, sales, session>>

(* Second step: update_item commits. *)
SellUpdate(c) ==
    /\ Started # {}
    /\ req[c] # Idle
    /\ req[c].pc = "update"
    /\ items' = sell_update(items, req[c].item, req[c].quantity)
    /\ req' = [req EXCEPT ![c].pc = "insert"]
    /\ UNCHANGED <<boots, shops, shop_seq, users, user_seq, item_seq, sales, session, resp>>

(* Third step: the sales row commits and the request is answered. *)
SellInsert(c) ==
    /\ Started # {}
    /\ req[c] # Idle
    /\ req[c].pc = "insert"
    /\ sales' = sell_insert(sales, req[c].shop_id, req[c].item, req[c].user_id,
                            req[c].quantity)
    /\ req' = [req EXCEPT ![c] = Idle]
    /\ Answer(c, SaleRecorded)
    /\ UNCHANGED <<boots, shops, shop_seq, users, user_seq, items, item_seq, session>>

(* A step of a sell request of c. *)
SellStep(c) ==
    \/ \E item_id \in SellItemTexts, quantity \in SellQuantityTexts :
           SellBegin(c, item_id, quantity)
    \/ SellUpdate(c)
    \/ SellInsert(c)

----------------------------------------------------------------------------
(* The program from an empty database file: one start of the application,  *)
(* then the requests that set up accounts, shops and sessions.  c1 sends    *)
(* all of them; c2 logs in and sends worker-management requests beside it.  *)

BootInit ==
    /\ boots = [s \in Starts |-> "off"]
    /\ shops = {}
    /\ shop_seq = 0
    /\ users = {}
    /\ user_seq = 0
    /\ items = {}
    /\ item_seq = 0
    /\ sales = <<>>
    /\ session = [c \in Clients |-> EmptySession]
    /\ req = [c \in Clients |-> Idle]
    /\ resp = [c \in Clients |-> NoResp]

BootNext ==
    \/ \E s \in {1} : InitDbCheck(s)
    \/ \E s \in {1} : InitDbSeed(s)
    \/ \E c \in Clients, cr \in Credentials : Login(c, cr[1], cr[2])
    \/ \E c \in {"c1"} : Logout(c)
    \/ \E c \in {"c1"} : Index(c)
    \/ \E c \in {"c1"}, name \in ShopNames : Shops(c, name)
    \/ \E c \in {"c1"}, shop_id \in ShopIdTexts : SelectShop(c, shop_id)
    \/ \E c \in Clients, w \in WorkerForms : Workers(c, w[1], w[2])

BootSpec == BootInit /\ [][BootNext]_vars

(* The starts of the application: every start runs init_db, the starts may  *)
(* overlap, and one caller sends the requests that add shops and users      *)
(* between their steps.  The database file is new, or it is one that has    *)
(* served before: shops, users, an item and a sale of it.                   *)
StockedInit ==
    /\ boots = OneStart
    /\ shops = {[id |-> 1, name |-> "Default Shop"], [id |-> 2, name |-> "Alpha"]}
    /\ shop_seq = 2
    /\ users = {[id |-> 1, username |-> "admin", password |-> "admin123",
                 role |-> "admin"],
                [id |-> 2, username |-> "worker1", password |-> "pw1",
                 role |-> "worker"]}
    /\ user_seq = 2
    /\ items = {[id |-> 1, shop_id |-> 1, name |-> "Widget", price |-> 2,
                 quantity |-> 4]}
    /\ item_seq = 1
    /\ sales = insert_sale(<<>>, 1, 1, 2, 6, 12)
    /\ session = [c \in Clients |-> EmptySession]
    /\ req = [c \in Clients |-> Idle]
    /\ resp = [c \in Clients |-> NoResp]

StartInit == BootInit \/ StockedInit

StartNext ==
    \/ \E s \in Starts : InitDbCheck(s)
    \/ \E s \in Starts : InitDbSeed(s)
    \/ \E s \in Starts : InitDbAdmin(s)
    \/ \E c \in {"c1"}, cr \in Credentials : Login(c, cr[1], cr[2])
    \/ \E c \in {"c1"}, name \in ShopNames : Shops(c, name)
    \/ \E c \in {"c1"}, w \in WorkerForms : Workers(c, w[1], w[2])

StartSpec == StartInit /\ [][StartNext]_vars

(* The shop floor.  The store after set-up (reached under BootSpec): two    *)
(* shops, the admin and one worker, no item yet, nobody has a shop selected.*)
FloorStore ==
    /\ boots = OneStart
    /\ shops = {[id |-> 1, name |-> "Default Shop"], [id |-> 2, name |-> "Alpha"]}
    /\ shop_seq = 2
    /\ users = {[id |-> 1, username |-> "admin", password |-> "admin123",
                 role |-> "admin"],
                [id |-> 2, username |-> "worker1", password |-> "pw1",
                 role |-> "worker"]}
    /\ user_seq = 2
    /\ items = {}
    /\ item_seq = 0
    /\ sales = <<>>
    /\ req = [c \in Clients |-> Idle]
    /\ resp = [c \in Clients |-> NoResp]

(* The requests on items, by a client. *)
ItemRequest(c) ==
    \/ \E shop_id \in ShopIdTexts : SelectShop(c, shop_id)
    \/ Index(c)
    \/ \E form \in ItemForms : NewItem(c, form)
    \/ \E item_id \in ItemIds : EditItemGet(c, item_id)
    \/ \E item_id \in ItemIds, form \in ItemForms : EditItem(c, item_id, form)
    \/ \E item_id \in ItemIds : RemoveItem(c, item_id)

(* One caller: the worker is logged in on c1 and c2 sends nothing, so every *)
(* request runs alone from its start to its response (a client sends its    *)
(* next request when the previous one is answered).                         *)
SeqInit ==
    /\ FloorStore
    /\ session = [c \in Clients |->
                    IF c = "c1" THEN [user_id |-> Some(2), shop_id |-> None]
                    ELSE EmptySession]

SeqNext ==
    \/ \E c \in {"c1"} : ItemRequest(c)
    \/ \E c \in {"c1"} : SellStep(c)

SeqSpec == SeqInit /\ [][SeqNext]_vars

(* One request at a time, with the sales report among the requests. *)
ReportNext ==
    \/ SeqNext
    \/ \E c \in {"c1"} : SalesReport(c)

ReportSpec == SeqInit /\ [][ReportNext]_vars

(* The whole program, one start and one request at a time, from an empty    *)
(* database file.                                                           *)
(* The stores of SeqInit, Init and RaceInit are reached under it.           *)
FullNext ==
    \/ \E s \in {1} : InitDbCheck(s)
    \/ \E s \in {1} : InitDbSeed(s)
    \/ \E cr \in Credentials : Login("c1", cr[1], cr[2])
    \/ Logout("c1")
    \/ \E name \in ShopNames : Shops("c1", name)
    \/ \E w \in WorkerForms : Workers("c1", w[1], w[2])
    \/ ReportNext

FullSpec == BootInit /\ [][FullNext]_vars

(* Concurrent callers: the admin on c1 and the worker on c2, and the steps  *)
(* of their requests interleave.                                            *)
Init ==
    /\ FloorStore
    /\ session = [c \in Clients |->
                    [user_id |-> Some(IF c = "c1" THEN 1 ELSE 2), shop_id |-> None]]

Next ==
    \/ \E c \in Clients, shop_id \in ShopIdTexts : SelectShop(c, shop_id)
    \/ \E c \in Clients, form \in ItemForms : NewItem(c, form)
    \/ \E c \in Clients, item_id \in ItemIds, form \in ItemForms : EditItem(c, item_id, form)
    \/ \E c \in Clients, item_id \in ItemIds : RemoveItem(c, item_id)
    \/ \E c \in Clients : SellStep(c)

Spec == Init /\ [][Next]_vars

(* Two simulated concurrent callers, one sell request each, against one     *)
(* Widget with stock 10 in the shop both have selected.                     *)
RaceItemTexts == { "1", "2" }
RaceQuantityTexts == { "0", "4", "6" }

RaceInit ==
    /\ boots = OneStart
    /\ shops = {[id |-> 1, name |-> "Default Shop"], [id |-> 2, name |-> "Alpha"]}
    /\ shop_seq = 2
    /\ users = {[id |-> 1, username |-> "admin", password |-> "admin123",
                 role |-> "admin"],
                [id |-> 2, username |-> "worker1", password |-> "pw1",
                 role |-> "worker"]}
    /\ user_seq = 2
    /\ items = {[id |-> 1, shop_id |-> 1, name |-> "Widget", price |-> 2,
                 quantity |-> 10]}
    /\ item_seq = 1
    /\ sales = <<>>
    /\ session = [c \in Clients |->
                    [user_id |-> Some(IF c = "c1" THEN 1 ELSE 2), shop_id |-> Some(1)]]
    /\ req = [c \in Clients |-> Idle]
    /\ resp = [c \in Clients |-> NoResp]

RaceNext ==
    \/ \E c \in Clients, item_id \in RaceItemTexts, quantity \in RaceQuantityTexts :
           resp[c] = NoResp /\ SellBegin(c, item_id, quantity)
    \/ \E c \in Clients : SellUpdate(c)
    \/ \E c \in Clients : SellInsert(c)

RaceSpec == RaceInit /\ [][RaceNext]_vars

----------------------------------------------------------------------------
(* Properties. *)

(* The integer a form text parses to, for texts that parse. *)
IntOf(text) == Get(ParseInt(text))

(* The session of c has a user and a selected shop. *)
HasShop(c) == session[c].user_id # None /\ session[c].shop_id # None

(* The session of c has a user and a selected shop, and both texts parse. *)
SellReaches(c, item_id, quantity) ==
    /\ HasShop(c)
    /\ ParseInt(item_id) # None
    /\ ParseInt(quantity) # None

(* The rows of items with this id in the shop selected by c. *)
RowsInShop(c, item_id) ==
    {r \in items : r.id = IntOf(item_id) /\ r.shop_id = Get(session[c].shop_id)}

NonNegativeStock == \A r \in items : r.quantity >= 0

(* C1: from a store in which every item has quantity >= 0, a sell request   *)
(* run alone leaves every item with quantity >= 0 (so does any sequence of  *)
(* them): no step from non-negative stock to negative stock is a step of a  *)
(* sale.                                                                    *)
C1_SalesKeepStockNonNegative ==
    [][(NonNegativeStock /\ ~NonNegativeStock')
          => \A c \in Clients : ~SellStep(c)]_vars

C1_Witness ==
    /\ Len(sales) = MaxSales
    /\ NonNegativeStock
    /\ \E r \in items : r.quantity = 0
    /\ resp["c1"] = SaleRecorded
    /\ req["c1"] = Idle

(* C3: a sell request run alone by a logged-in user with a selected shop,   *)
(* for an item of that shop with quantity n and 0 < q <= n, leaves the item *)
(* with n - q, appends one sales row (that shop, item, user, q, price * q)  *)
(* and answers ok = true, "Sale recorded successfully.".  Step by step: the *)
(* checks accept the request for that row and q and write nothing; the      *)
(* first commit takes q from the row's quantity and changes nothing else;   *)
(* the second commit appends the sales row and answers.                     *)
C3_SaleEffect ==
    [][\A c \in Clients :
          /\ HasShop(c) =>
                \A item_id \in SellItemTexts, quantity \in SellQuantityTexts :
                   (/\ ParseInt(item_id) # None
                    /\ ParseInt(quantity) # None
                    /\ \E r \in RowsInShop(c, item_id) :
                           0 < IntOf(quantity) /\ IntOf(quantity) <= r.quantity
                    /\ SellBegin(c, item_id, quantity))
                   => /\ UNCHANGED <<items, sales, resp>>
                      /\ req'[c] # Idle
                      /\ req'[c].pc = "update"
                      /\ req'[c].quantity = IntOf(quantity)
                      /\ req'[c].shop_id = Get(session[c].shop_id)
                      /\ req'[c].user_id = Get(session[c].user_id)
                      /\ \E r \in RowsInShop(c, item_id) : req'[c].item = Item(r)
          /\ SellUpdate(c)
                => /\ \E r \in items :
                         /\ r.id = req[c].item.id
                         /\ r.shop_id = req[c].shop_id
                         /\ items' = (items \ {r}) \cup
                               {[r EXCEPT !.quantity = r.quantity - req[c].quantity]}
                   /\ UNCHANGED <<sales, resp>>
          /\ SellInsert(c)
                => /\ \E r \in items :
                         /\ r.id = req[c].item.id
                         /\ sales' = Append(sales,
                               [shop_id |-> req[c].shop_id, item_id |-> r.id,
                                user_id |-> req[c].user_id,
                                quantity |-> req[c].quantity,
                                total |-> r.price * req[c].quantity])
                   /\ items' = items
                   /\ resp'[c].ok = "true"
                   /\ resp'[c].status = "Sale recorded successfully."
                   /\ req'[c] = Idle]_vars

C3_Witness ==
    /\ Len(sales) = 1
    /\ resp["c1"].ok = "true"
    /\ req["c1"] = Idle
    /\ \E r \in items :
          /\ r.id = sales[1].item_id
          /\ r.shop_id = sales[1].shop_id
          /\ r.quantity = 4
          /\ sales[1].quantity = 6
          /\ sales[1].total = 12

(* C4: a sell request rejected because q <= 0, or because q exceeds the     *)
(* item's quantity, changes no item and adds no sales row, and answers      *)
(* ok = false (it ends with its checks: no write of it follows).            *)
C4_RejectedSaleChangesNothing ==
    [][\A c \in Clients : HasShop(c) =>
          \A item_id \in SellItemTexts : ParseInt(item_id) # None =>
             \A quantity \in SellQuantityTexts :
                (/\ ParseInt(quantity) # None
                 /\ \/ IntOf(quantity) <= 0
                    \/ \E r \in RowsInShop(c, item_id) : IntOf(quantity) > r.quantity
                 /\ SellBegin(c, item_id, quantity))
                => /\ items' = items
                   /\ sales' = sales
                   /\ resp'[c].ok = "false"
                   /\ req'[c] = Idle]_vars

C4_Witness ==
    /\ resp["c1"] \in {QuantityTooSmall, NotEnoughStock}
    /\ \E r \in items : r.shop_id = Get(session["c1"].shop_id) /\ r.quantity = 4
    /\ Len(sales) = 1

(* C5: a sell request for an item id that names no item of the caller's     *)
(* selected shop (an unused id, or the id of another shop's item) answers   *)
(* "Selected item not found." and changes no item and adds no sales row (it *)
(* ends with its checks).                                                   *)
C5_ForeignItemNotFound ==
    [][\A c \in Clients : HasShop(c) =>
          \A item_id \in SellItemTexts :
             (ParseInt(item_id) # None /\ RowsInShop(c, item_id) = {}) =>
                \A quantity \in SellQuantityTexts :
                   (ParseInt(quantity) # None /\ SellBegin(c, item_id, quantity))
                   => /\ resp'[c] = ItemNotFound
                      /\ items' = items
                      /\ sales' = sales
                      /\ req'[c] = Idle]_vars

C5_Witness ==
    /\ resp["c1"] = ItemNotFound
    /\ session["c1"].shop_id # None
    /\ \E r \in items : r.shop_id # Get(session["c1"].shop_id) /\ r.quantity > 0

(* Both callers of the race have been answered. *)
BothAnswered == \A c \in Clients : resp[c] # NoResp

(* Both callers asked for 6 of item 1: each was answered with a sale or     *)
(* with too little stock (a request for 0 or for item 2 is answered         *)
(* otherwise, and a request for 4 always finds stock), and no sale is of 4. *)
BothAskedSix ==
    /\ BothAnswered
    /\ \A c \in Clients : resp[c] \in {SaleRecorded, NotEnoughStock}
    /\ \A k \in 1..Len(sales) : sales[k].quantity = 6

(* C2: of two concurrent sell requests for one item whose quantities sum to *)
(* more than its stock at most one is answered as a sale, and the quantity  *)
(* is never negative; with 6 and 6 against 10 exactly one succeeds, the     *)
(* other is rejected and 4 are left.                                        *)
C2_NoOverselling ==
    /\ NonNegativeStock
    /\ (BothAnswered /\ \A c \in Clients : resp[c] = SaleRecorded)
          => sales[1].quantity + sales[2].quantity <= 10
    /\ BothAskedSix
          => /\ Cardinality({c \in Clients : resp[c] = SaleRecorded}) = 1
             /\ Cardinality({c \in Clients : resp[c] = NotEnoughStock}) = 1
             /\ \A r \in items : r.quantity = 4

(* The requests of c on items. *)
ItemStep(c) ==
    \/ ItemRequest(c)
    \/ SellStep(c)

(* The rows of items that are not of the shop selected by c. *)
ForeignRows(c) ==
    {r \in items : session[c].shop_id = None \/ r.shop_id # Get(session[c].shop_id)}

(* C6: no request returns, modifies or deletes an item of a shop other than *)
(* the one selected in the caller's session.                                *)
C6_TenantIsolation ==
    [][\A c \in Clients :
          ItemStep(c) => /\ \A r \in ForeignRows(c) : r \in items'
                         /\ resp'[c].items \cap {r.id : r \in ForeignRows(c)} = {}]_vars

(* C7: fetch_items(shop) returns exactly the items rows of that shop, each  *)
(* once, and no row of another shop; without a shop it returns [].          *)
C7_ListItemsScoped ==
    /\ fetch_items(None) = <<>>
    /\ \A s \in 1..3 :
          LET rows == fetch_items(Some(s))
          IN  /\ \A i \in 1..Len(rows) :
                    \E r \in items : /\ r.shop_id = s
                                     /\ r.id = rows[i].id
                                     /\ r.name = rows[i].name
                                     /\ r.price = rows[i].price
                                     /\ r.quantity = rows[i].quantity
              /\ \A r \in items : r.shop_id = s => \E i \in 1..Len(rows) : rows[i].id = r.id
              /\ \A i, j \in 1..Len(rows) : rows[i].id = rows[j].id => i = j

C7_Witness ==
    /\ Len(fetch_items(Some(1))) = 1
    /\ Len(fetch_items(Some(2))) = 0
    /\ session["c1"].shop_id = Some(2)

(* C8: a step of init_db on a store that a start has already set up changes *)
(* no shop, user, item or sale, and a start that begins there goes on        *)
(* without error; after any start that ends without error there is exactly  *)
(* one shop named 'Default Shop' and exactly one admin.                      *)
C8_BootstrapIdempotent ==
    [][\A s \in Starts :
          (InitDbCheck(s) \/ InitDbSeed(s) \/ InitDbAdmin(s)) =>
             /\ Started # {} => UNCHANGED store
             /\ (Started # {} /\ boots[s] # "seed") => boots'[s] \in {"admin", "up"}
             /\ boots'[s] = "up" =>
                   /\ Cardinality({sh \in shops' : sh.name = "Default Shop"}) = 1
                   /\ Cardinality({u \in users' : u.role = "admin"}) = 1]_vars

C8_Witness ==
    /\ Cardinality(Started) = 2
    /\ items = {}
    /\ Cardinality(shops) = 2
    /\ Cardinality(users) = 2
    /\ Cardinality({sh \in shops : sh.name = "Default Shop"}) = 1
    /\ Cardinality({u \in users : u.role = "admin"}) = 1

(* C9: the decrement and the sales row of a sale are one atomic unit: in no *)
(* committed state has a sale's decrement been written while its sales row  *)
(* is missing.                                                              *)
C9_SaleAtomic ==
    \A c \in Clients : req[c] # Idle => req[c].pc # "insert"

(* C10: a sales row, once written, stays as it is in every later state, and *)
(* its total is the item's price when the sale was made times the quantity  *)
(* sold.                                                                    *)
C10_SalesImmutable ==
    [][/\ Len(sales') >= Len(sales)
       /\ \A k \in 1..Len(sales) : sales'[k] = sales[k]
       /\ \A k \in (Len(sales) + 1)..Len(sales') :
             \E r \in items : /\ r.id = sales'[k].item_id
                              /\ sales'[k].total = r.price * sales'[k].quantity]_vars

C10_Witness ==
    /\ Len(sales) = 1
    /\ sales[1].total = 12
    /\ \A r \in items : r.id # sales[1].item_id \/ r.price # 2

(* C11: every sales row has the shop_id of the item it references, for as   *)
(* long as that item exists (also among concurrent requests: item ids are   *)
(* never given twice and no request changes an item's shop_id).             *)
C11_SaleShopIsItemShop ==
    \A k \in 1..Len(sales) :
       \A r \in items : r.id = sales[k].item_id => r.shop_id = sales[k].shop_id

C11_Witness ==
    /\ Len(sales) >= 1
    /\ sales[1].shop_id = 2
    /\ \E r \in items : r.id = sales[1].item_id /\ r.shop_id = 2
    /\ \E c \in Clients : session[c].shop_id = Some(1)

(* The user of the session of c, when it has one, and whether it is an     *)
(* admin.                                                                   *)
LoggedIn(c) == get_current_user(session[c]) # None
IsAdmin(c) == LoggedIn(c) /\ Get(get_current_user(session[c])).role = "admin"

(* C12: a worker-management request of a logged-in user who is not an admin *)
(* is answered with a redirect and adds no user; a request adds a user only *)
(* when it is the worker-management request of an admin, and the user it    *)
(* adds is one new row with role worker.  (The only other insert into users *)
(* is the admin seed of init_db, which is not a request.)                   *)
C12_WorkersAdminOnly ==
    [][/\ \A c \in Clients : (LoggedIn(c) /\ ~IsAdmin(c)) =>
             \A w \in WorkerForms :
                Workers(c, w[1], w[2]) => /\ resp'[c].kind = "redirect"
                                          /\ users' = users
       /\ (users' # users /\ ~InitDb)
             => /\ \E c \in Clients, w \in WorkerForms :
                      IsAdmin(c) /\ Workers(c, w[1], w[2])
                /\ \E u \in users' \ users :
                      /\ users' = users \cup {u}
                      /\ u.role = "worker"
                      /\ \A o \in users : o.id # u.id /\ o.username # u.username]_vars

C12_Witness ==
    \E c, d \in Clients :
       /\ LoggedIn(c) /\ ~IsAdmin(c)
       /\ resp[c] = Redirect("dashboard")
       /\ IsAdmin(d)
       /\ resp[d] = Render("workers", "", {})
       /\ Cardinality(users) = 2

(* C13: the shop selected in a session is none or the id of a row of       *)
(* shops.                                                                   *)
C13_SelectedShopExists ==
    \A c \in Clients :
       session[c].shop_id # None => \E sh \in shops : sh.id = Get(session[c].shop_id)

(* C14: whatever integer quantities the create-item, edit-item, delete-item *)
(* and sell requests carry, every item's quantity is >= 0.                  *)
C14_QuantityNeverNegative ==
    \A r \in items : r.quantity >= 0

(* The requests of c that operate on items or sales. *)
ShopRequest(c) ==
    \/ \E form \in ItemForms : NewItem(c, form)
    \/ \E item_id \in ItemIds, form \in ItemForms : EditItem(c, item_id, form)
    \/ \E item_id \in ItemIds : RemoveItem(c, item_id)
    \/ SellStep(c)
    \/ SalesReport(c)

(* C15: a create-item, edit-item, delete-item, sell or sales-report request *)
(* of a logged-in user without a selected shop is answered with the         *)
(* redirect to shop selection and changes no item and no sale.              *)
C15_NoShopRedirects ==
    [][\A c \in Clients :
          (LoggedIn(c) /\ session[c].shop_id = None /\ ShopRequest(c))
          => /\ resp'[c] = Redirect("shops")
             /\ items' = items
             /\ sales' = sales]_vars

(* C16: every sales row references an item, a shop and a user that exist.  *)
C16_SaleReferencesExist ==
    \A k \in 1..Len(sales) :
       /\ \E r \in items : r.id = sales[k].item_id
       /\ \E sh \in shops : sh.id = sales[k].shop_id
       /\ \E u \in users : u.id = sales[k].user_id

(* C17: sales_report(shop) has one row for each sales row of that shop and *)
(* no row for a sale of another shop.                                       *)
C17_ReportComplete ==
    \A s \in {sh.id : sh \in shops} :
       /\ {row.id : row \in sales_report(s)} = {k \in 1..Len(sales) : sales[k].shop_id = s}
       /\ Cardinality(sales_report(s)) = Cardinality({row.id : row \in sales_report(s)})

(* C18: a sell request whose quantity parses to an integer <= 0 is answered *)
(* "Quantity must be at least 1." whether or not the item exists in the     *)
(* selected shop, and "Selected item not found." is answered only for a     *)
(* positive quantity.                                                       *)
C18_QuantityCheckedFirst ==
    [][\A c \in Clients : HasShop(c) =>
          \A item_id \in SellItemTexts, quantity \in SellQuantityTexts :
             (/\ ParseInt(item_id) # None
              /\ ParseInt(quantity) # None
              /\ SellBegin(c, item_id, quantity))
             => /\ IntOf(quantity) <= 0 => resp'[c] = QuantityTooSmall
                /\ resp'[c] = ItemNotFound => IntOf(quantity) > 0]_vars

(* C19: the first write of a sale changes only the quantity of the sold     *)
(* item: every item keeps the name and the price it had immediately before  *)
(* the write (also when an edit committed after the sale read the item),    *)
(* and the write brings back no deleted item.                               *)
C19_SaleKeepsNameAndPrice ==
    [][\A c \in Clients :
          SellUpdate(c)
          => /\ \A r \in items :
                   \E n \in items' : /\ n.id = r.id
                                     /\ n.shop_id = r.shop_id
                                     /\ n.name = r.name
                                     /\ n.price = r.price
             /\ \A n \in items' : \E r \in items : r.id = n.id]_vars

RECURSIVE SoldOf(_, _)
(* The sum of the quantities of the first k sales rows of an item. *)
SoldOf(item_id, k) ==
    IF k = 0 THEN 0
    ELSE SoldOf(item_id, k - 1)
           + (IF sales[k].item_id = item_id THEN sales[k].quantity ELSE 0)

(* C20: for an item created with quantity 10 and never edited or deleted,   *)
(* whenever no sale is in progress its quantity plus the quantities of its  *)
(* sales rows is 10, under every interleaving of the sell requests.         *)
C20_StockConserved ==
    InFlight = {}
       => \A r \in items : r.quantity + SoldOf(r.id, Len(sales)) = 10

====
